---- MODULE Spec2Model ----
(***************************************************************************)
(* Model of circular_stats.py: the three test objects KuiperTest,          *)
(* WatsonTwoTest and RayleighTest, their run_test and print_results        *)
(* methods, and the numeric helpers they call.                             *)
(*                                                                         *)
(* Numbers.  An angle is an integer count of units of 2*pi/24 (15 degrees),*)
(* so 2*pi is TwoPi = 24.  Doubles are modelled by a small binary float    *)
(* format with a 3-bit significand: every integer below 8 is a float,      *)
(* floats in [8,16) are the even integers and floats in [16,32) are the    *)
(* multiples of 4.  A floating-point addition rounds its exact result to   *)
(* the nearest float, ties to the even significand, as IEEE-754 does.      *)
(* Statistics are fixed-point numbers in thousandths (1537 is 1.537),      *)
(* p-values in millionths; a division truncates toward zero, so that       *)
(* negating the operands negates the quotient, as it does for doubles.     *)
(* alpha is an integer count of thousandths (50 is 0.05).                  *)
(***************************************************************************)
EXTENDS Integers, Sequences, FiniteSets, TLC

VARIABLES kind, x, y, alpha, mu, statistic, nx, ny, p_value,
          called, ret, exc, out, completed

vars == <<kind, x, y, alpha, mu, statistic, nx, ny, p_value,
          called, ret, exc, out, completed>>

-----------------------------------------------------------------------------
(* Bounds of the model.                                                    *)

\* longest sample enumerated element by element
MaxLen == 2
\* length of the constant samples given to the Rayleigh test
LongLen == 6
\* length of each of the two separated constant samples given to Watson's test
BigLen == 2400

-----------------------------------------------------------------------------
(* Values.                                                                 *)

\* Python's None
None == <<>>

Some(v) == <<v>>

\* the missing-value marker, float('nan'); any integer that is no angle
NaN == -1000000

\* 2 * np.pi, in angle units
TwoPi == 24

Abs(a) == IF a < 0 THEN -a ELSE a

\* a / b for doubles, in fixed point: the quotient truncated toward zero
FDiv(a, b) == IF a >= 0 THEN a \div b ELSE -((-a) \div b)

\* np.sqrt of a non-negative fixed-point square: the integer square root
\* found by bisection between lo and hi
RECURSIVE IsqrtBetween(_, _, _)
IsqrtBetween(v, lo, hi) ==
    IF lo = hi THEN lo
    ELSE LET mid == (lo + hi + 1) \div 2
         IN  IF mid * mid <= v THEN IsqrtBetween(v, mid, hi)
             ELSE IsqrtBetween(v, lo, mid - 1)

Isqrt(v) == IsqrtBetween(v, 0, 46340)

\* spacing of the floats around the non-negative real r
Ulp(r) == IF r < 8 THEN 1 ELSE IF r < 16 THEN 2 ELSE IF r < 32 THEN 4 ELSE 8

\* the float nearest to the non-negative real r, ties to the even significand
RoundFloat(r) ==
    LET u == Ulp(r)
        lo == (r \div u) * u
        hi == lo + u
    IN  IF r = lo THEN r
        ELSE IF r - lo < hi - r THEN lo
        ELSE IF r - lo > hi - r THEN hi
        ELSE IF (lo \div u) % 2 = 0 THEN lo ELSE hi

\* C fmod: the remainder with the sign of the dividend, always exact
Fmod(a, b) == IF a >= 0 THEN a % b ELSE -((-a) % b)

\* np.mod(v, 2 * np.pi): fmod, then the divisor is added to a negative
\* remainder, and that addition rounds
NpMod(v) ==
    IF v = NaN THEN NaN
    ELSE LET m == Fmod(v, TwoPi)
         IN  IF m < 0 THEN RoundFloat(m + TwoPi) ELSE m

\* np.array(f): the sequence f with every element computed
Array(f) == f \o <<>>

\* RemoveNaN without the filter: missing values stay in the sample
RemoveNaNKeep(s) == s

\* s[~np.isnan(s)]
RemoveNaN(s) == SelectSeq(s, LAMBDA v : v # NaN)

\* np.mod(s, 2 * np.pi), elementwise
ModSample(s) == Array([i \in 1..Len(s) |-> NpMod(s[i])])

\* the preparation step of every run_test on a sample that is not empty
Prepare(s) == ModSample(RemoveNaN(s))

Range(s) == {s[i] : i \in 1..Len(s)}

\* the constant sample of n copies of v
Const(n, v) == [i \in 1..n |-> v]

\* the sorted sequence of the elements of s whose value lies in S
RECURSIVE SortFrom(_, _)
SortFrom(s, S) ==
    IF S = {} THEN <<>>
    ELSE LET m == CHOOSE v \in S : \A o \in S : v <= o
         IN  Const(Cardinality({j \in 1..Len(s) : s[j] = m}), m) \o SortFrom(s, S \ {m})

\* np.sort(s)
Sort(s) == SortFrom(s, Range(s))

\* np.cumsum(s)
RECURSIVE CumSum(_)
CumSum(s) ==
    IF Len(s) <= 1 THEN s
    ELSE LET h == Len(s) \div 2
             l == CumSum(SubSeq(s, 1, h))
             r == CumSum(SubSeq(s, h + 1, Len(s)))
         IN  l \o [i \in 1..(Len(s) - h) |-> r[i] + l[h]]

\* np.sum(s)
Sum(s) == IF Len(s) = 0 THEN 0 ELSE CumSum(s)[Len(s)]

\* np.max(s), s not empty
Max(s) == CHOOSE m \in Range(s) : \A o \in Range(s) : o <= m

\* one printed line: its text and the number formatted into it
Line(text, val) == [text |-> text, val |-> val]

Printed(text) == \E i \in 1..Len(out) : out[i].text = text

-----------------------------------------------------------------------------
(* KuiperTest                                                              *)

\* KuiperAlphas with 0.2 accepted as well
KuiperAlphasWide == {0, 10, 25, 50, 100, 150, 200}

\* the list alpha is validated against in _kuiper_test_rad
KuiperAlphas == {0, 10, 25, 50, 100, 150}

\* KuiperV with the two deviations subtracted instead of added
KuiperVSignSlip(s) ==
    LET n == Len(s)
        xs == [k \in 1..n |-> FDiv(Sort(s)[k] * 1000, TwoPi)]
        D_P == Max([i \in 1..n |-> FDiv(i * 1000, n) - xs[i]])
        D_M == Max([i \in 1..n |-> xs[i] - FDiv((i - 1) * 1000, n)])
        sq == Isqrt(n * 1000000)
    IN  FDiv((D_P - D_M) * (sq + 155 + FDiv(240000, sq)), 1000)

\* KuiperTest._kuiper_test_rad, after the validation of alpha
KuiperV(s) ==
    LET n == Len(s)
        xs == [k \in 1..n |-> FDiv(Sort(s)[k] * 1000, TwoPi)]
        D_P == Max([i \in 1..n |-> FDiv(i * 1000, n) - xs[i]])
        D_M == Max([i \in 1..n |-> xs[i] - FDiv((i - 1) * 1000, n)])
        sq == Isqrt(n * 1000000)
    IN  FDiv((D_P + D_M) * (sq + 155 + FDiv(240000, sq)), 1000)

\* kuiper_crits
KuiperCrits == [a \in {150, 100, 50, 25, 10} |->
                  CASE a = 150 -> 1537 [] a = 100 -> 1620 [] a = 50 -> 1747
                    [] a = 25 -> 1862 [] a = 10 -> 2001]

\* KuiperReport rejecting already at the critical value (V >= critical)
KuiperReportAtLeast(V, a) ==
    <<Line("Kuiper's Test of Uniformity", 0), Line("Test Statistic", V)>> \o
    (IF a = 0
     THEN <<Line(IF V < 1537 THEN "P-value > 0.15"
                 ELSE IF V < 1620 THEN "0.10 < P-value < 0.15"
                 ELSE IF V < 1747 THEN "0.05 < P-value < 0.10"
                 ELSE IF V < 1862 THEN "0.025 < P-value < 0.05"
                 ELSE IF V < 2001 THEN "0.01 < P-value < 0.025"
                 ELSE "P-value < 0.01", 0)>>
     ELSE <<Line("Critical Value", KuiperCrits[a]),
            Line(IF V >= KuiperCrits[a] THEN "Reject Null Hypothesis"
                 ELSE "Do Not Reject Null Hypothesis", 0)>>)

\* the lines KuiperTest.print_results prints for statistic V at level a
KuiperReport(V, a) ==
    <<Line("Kuiper's Test of Uniformity", 0), Line("Test Statistic", V)>> \o
    (IF a = 0
     THEN <<Line(IF V < 1537 THEN "P-value > 0.15"
                 ELSE IF V < 1620 THEN "0.10 < P-value < 0.15"
                 ELSE IF V < 1747 THEN "0.05 < P-value < 0.10"
                 ELSE IF V < 1862 THEN "0.025 < P-value < 0.05"
                 ELSE IF V < 2001 THEN "0.01 < P-value < 0.025"
                 ELSE "P-value < 0.01", 0)>>
     ELSE <<Line("Critical Value", KuiperCrits[a]),
            Line(IF V > KuiperCrits[a] THEN "Reject Null Hypothesis"
                 ELSE "Do Not Reject Null Hypothesis", 0)>>)

\* KuiperRunTest storing the statistic before alpha is validated
KuiperRunTestEager ==
    /\ kind = "kuiper"
    /\ called' = "run_test"
    /\ LET clean == RemoveNaN(x)
       IN  IF Len(clean) = 0
           THEN /\ x' = clean
                /\ out' = <<Line("Warning: No observations", 0)>>
                /\ ret' = None
                /\ exc' = "none"
                /\ UNCHANGED <<statistic, completed>>
           ELSE /\ x' = ModSample(clean)
                /\ statistic' = Some(KuiperV(x'))
                /\ out' = <<>>
                /\ IF alpha \notin KuiperAlphas
                   THEN /\ exc' = "ValueError"
                        /\ UNCHANGED <<ret, completed>>
                   ELSE /\ ret' = statistic'
                        /\ exc' = "none"
                        /\ completed' = TRUE
    /\ UNCHANGED <<kind, y, alpha, mu, nx, ny, p_value>>

KuiperRunTest ==
    /\ kind = "kuiper"
    /\ called' = "run_test"
    /\ LET clean == RemoveNaN(x)
       IN  IF Len(clean) = 0
           THEN /\ x' = clean
                /\ out' = <<Line("Warning: No observations", 0)>>
                /\ ret' = None
                /\ exc' = "none"
                /\ UNCHANGED <<statistic, completed>>
           ELSE /\ x' = ModSample(clean)
                /\ IF alpha \notin KuiperAlphas
                   THEN /\ exc' = "ValueError"
                        /\ out' = <<>>
                        /\ UNCHANGED <<statistic, ret, completed>>
                   ELSE /\ statistic' = Some(KuiperV(x'))
                        /\ ret' = statistic'
                        /\ exc' = "none"
                        /\ out' = <<>>
                        /\ completed' = TRUE
    /\ UNCHANGED <<kind, y, alpha, mu, nx, ny, p_value>>

KuiperPrintResults ==
    /\ kind = "kuiper"
    /\ called' = "print_results"
    /\ ret' = None
    /\ IF statistic = None
       THEN /\ out' = <<Line("Test has not been run yet", 0)>>
            /\ exc' = "none"
       ELSE IF alpha # 0 /\ alpha \notin DOMAIN KuiperCrits
       THEN /\ out' = <<Line("Kuiper's Test of Uniformity", 0),
                        Line("Test Statistic", statistic[1])>>
            /\ exc' = "KeyError"
       ELSE /\ out' = KuiperReport(statistic[1], alpha)
            /\ exc' = "none"
    /\ UNCHANGED <<kind, x, y, alpha, mu, statistic, nx, ny, p_value, completed>>

-----------------------------------------------------------------------------
(* WatsonTwoTest                                                           *)

\* the labels of the merged sample when np.argsort keeps the stacked order
\* of equal values: every sorted x entry (label 1) before an equal y entry
StableLabels(sx, sy) ==
    LET Below(t, v) == Cardinality({j \in 1..Len(t) : t[j] < v})
        UpTo(t, v) == Cardinality({j \in 1..Len(t) : t[j] <= v})
        posX == UNION {(Below(sx, v) + Below(sy, v) + 1)..(UpTo(sx, v) + Below(sy, v)) :
                         v \in Range(sx)}
    IN  Array([k \in 1..(Len(sx) + Len(sy)) |-> IF k \in posX THEN 1 ELSE 2])

\* the merged values that the labelling L of the positions stands for
MergedValues(sx, sy, L) ==
    LET a == CumSum([k \in 1..Len(L) |-> IF L[k] = 1 THEN 1 ELSE 0])
        b == CumSum([k \in 1..Len(L) |-> IF L[k] = 2 THEN 1 ELSE 0])
    IN  Array([k \in 1..Len(L) |-> IF L[k] = 1 THEN sx[a[k]] ELSE sy[b[k]]])

\* xx[rank][:, 1] for rank = np.argsort(xx[:, 0]): the default sort kind is
\* not stable, so equal values of the two samples may come out in any order
Merges(sx, sy) ==
    IF Range(sx) \cap Range(sy) = {}
    THEN {StableLabels(sx, sy)}
    ELSE {L \in [1..(Len(sx) + Len(sy)) -> {1, 2}] :
            /\ Cardinality({k \in 1..Len(L) : L[k] = 1}) = Len(sx)
            /\ LET m == MergedValues(sx, sy, L)
               IN  \A k \in 1..(Len(L) - 1) : m[k] <= m[k + 1]}

\* WatsonU2 with the factor n1 * n1 / n ** 2
WatsonU2Ratio(n1, n2, L) ==
    LET n == n1 + n2
        a == CumSum([k \in 1..n |-> IF L[k] = 1 THEN 1 ELSE 0])
        b == CumSum([k \in 1..n |-> IF L[k] = 2 THEN 1 ELSE 0])
        d == Array([k \in 1..n |-> FDiv(b[k] * 1000, n2) - FDiv(a[k] * 1000, n1)])
        dbar == FDiv(Sum(d), n)
        ss == Sum([k \in 1..n |-> (d[k] - dbar) * (d[k] - dbar)])
    IN  FDiv(FDiv(n1 * n1 * 100, n * n) * FDiv(ss, 1000), 100)

\* WatsonTwoTest._watson_two_test_rad from the merged labels on: u2
WatsonU2(n1, n2, L) ==
    LET n == n1 + n2
        a == CumSum([k \in 1..n |-> IF L[k] = 1 THEN 1 ELSE 0])
        b == CumSum([k \in 1..n |-> IF L[k] = 2 THEN 1 ELSE 0])
        d == Array([k \in 1..n |-> FDiv(b[k] * 1000, n2) - FDiv(a[k] * 1000, n1)])
        dbar == FDiv(Sum(d), n)
        ss == Sum([k \in 1..n |-> (d[k] - dbar) * (d[k] - dbar)])
    IN  FDiv(FDiv(n1 * n2 * 100, n * n) * FDiv(ss, 1000), 100)

\* crits
WatsonCrits == [a \in {0, 1, 10, 50, 100} |->
                  CASE a = 0 -> 99000 [] a = 1 -> 385 [] a = 10 -> 268
                    [] a = 50 -> 187 [] a = 100 -> 152]

\* WatsonCritical with the default 0 in place of 99
WatsonCriticalZero(a) == IF a \in DOMAIN WatsonCrits THEN WatsonCrits[a] ELSE 0

\* crits.get(alpha, 99)
WatsonCritical(a) == IF a \in DOMAIN WatsonCrits THEN WatsonCrits[a] ELSE 99000

\* the lines WatsonTwoTest.print_results prints
WatsonReport(u2, n1, n2, a) ==
    <<Line("Watson's Two-Sample Test of Homogeneity", 0)>> \o
    (IF n1 + n2 < 18 THEN <<Line("Warning: Total Sample Size < 18", 0)>> ELSE <<>>) \o
    <<Line("Test Statistic", u2)>> \o
    (IF a = 0
     THEN <<Line(IF u2 > 385 THEN "P-value < 0.001"
                 ELSE IF u2 > 268 THEN "0.001 < P-value < 0.01"
                 ELSE IF u2 > 187 THEN "0.01 < P-value < 0.05"
                 ELSE IF u2 > 152 THEN "0.05 < P-value < 0.10"
                 ELSE "P-value > 0.10", 0)>>
     ELSE <<Line("Critical Value", WatsonCritical(a)),
            Line(IF u2 > WatsonCritical(a) THEN "Reject Null Hypothesis"
                 ELSE "Do Not Reject Null Hypothesis", 0)>>)

\* WatsonEmptyWarning looking at y first
WatsonEmptyWarningYFirst(cx, cy) ==
    IF Len(cy) = 0 THEN <<Line("Warning: 'y': No observations", 0)>>
    ELSE <<Line("Warning: 'x': No observations", 0)>>

\* the warning of WatsonTwoTest.run_test for the cleaned samples cx and cy,
\* one of which is empty: x is looked at first
WatsonEmptyWarning(cx, cy) ==
    IF Len(cx) = 0 THEN <<Line("Warning: 'x': No observations", 0)>>
    ELSE <<Line("Warning: 'y': No observations", 0)>>

WatsonRunTest ==
    /\ kind = "watson"
    /\ called' = "run_test"
    /\ LET cx == RemoveNaN(x)
           cy == RemoveNaN(y)
           px == ModSample(cx)
           py == ModSample(cy)
       IN  IF Len(cx) = 0 \/ Len(cy) = 0
           THEN /\ x' = cx
                /\ y' = cy
                /\ out' = WatsonEmptyWarning(cx, cy)
                /\ ret' = None
                /\ UNCHANGED <<statistic, nx, ny, completed>>
           ELSE /\ x' = px
                /\ y' = py
                /\ \E L \in Merges(Sort(px), Sort(py)) :
                       statistic' = Some(WatsonU2(Len(px), Len(py), L))
                /\ nx' = Some(Len(px))
                /\ ny' = Some(Len(py))
                /\ ret' = statistic'
                /\ out' = <<>>
                /\ completed' = TRUE
    /\ exc' = "none"
    /\ UNCHANGED <<kind, alpha, mu, p_value>>

WatsonPrintResults ==
    /\ kind = "watson"
    /\ called' = "print_results"
    /\ ret' = None
    /\ exc' = "none"
    /\ out' = IF statistic = None
              THEN <<Line("Test has not been run yet", 0)>>
              ELSE WatsonReport(statistic[1], nx[1], ny[1], alpha)
    /\ UNCHANGED <<kind, x, y, alpha, mu, statistic, nx, ny, p_value, completed>>

-----------------------------------------------------------------------------
(* RayleighTest                                                            *)

Sign(a) == IF a < 0 THEN -1 ELSE 1

\* a * b for doubles, a and the product in the same fixed-point unit and b
\* in thousandths; computed in two parts so that no intermediate exceeds
\* the 32-bit integers of the model checker
Mul(a, b) ==
    Sign(a) * Sign(b) *
    ((Abs(a) \div 1000) * Abs(b) + ((Abs(a) % 1000) * Abs(b)) \div 1000)

\* a * b for doubles, both and the product in millionths
MulMicro(a, b) ==
    Sign(a) * Sign(b) *
    (((Abs(a) \div 1000) * Abs(b)) \div 1000 + ((Abs(a) % 1000) * Abs(b)) \div 1000000)

\* np.sin of an angle of the first quarter turn, in thousandths
SinQ == <<0, 259, 500, 707, 866, 966, 1000>>

\* np.sin, in thousandths
Sin(k) ==
    LET r == k % 24
    IN  IF r <= 6 THEN SinQ[r + 1]
        ELSE IF r <= 12 THEN SinQ[12 - r + 1]
        ELSE IF r <= 18 THEN -SinQ[r - 12 + 1]
        ELSE -SinQ[24 - r + 1]

\* np.cos, in thousandths
Cos(k) == Sin(k + 6)

\* exp(-k) for whole k, in millionths
ExpInt == <<1000000, 367879, 135335, 49787, 18316, 6738, 2479, 912, 335, 123, 45>>

\* the Taylor series of exp(-f), 0 <= f < 1 in thousandths, from term k on
RECURSIVE ExpSeries(_, _, _)
ExpSeries(f, k, term) ==
    IF term = 0 \/ k > 12 THEN 0
    ELSE term + ExpSeries(f, k + 1, -FDiv(Mul(term, f), k))

\* np.exp(-z) for z >= 0 in thousandths; the result in millionths
ExpNeg(z) ==
    IF z \div 1000 >= Len(ExpInt) THEN 0
    ELSE MulMicro(ExpInt[z \div 1000 + 1], ExpSeries(z % 1000, 1, 1000000))

\* stats.norm.pdf(z), z in thousandths; the result in millionths
NormPdf(z) == MulMicro(ExpNeg(FDiv(Mul(z, z), 2)), 398942)

\* stats.norm.cdf(z), z in thousandths; the result in millionths
\* (the five-term rational approximation of the normal tail)
NormCdf(z) ==
    LET d == 1000000 + FDiv(231642 * Abs(z), 1000)
        t == (1000000000 \div d) * 1000 + ((1000000000 % d) * 1000) \div d
        p5 == MulMicro(1330274, t) - 1821256
        p4 == MulMicro(p5, t) + 1781478
        p3 == MulMicro(p4, t) - 356564
        p2 == MulMicro(p3, t) + 319382
        tail == MulMicro(NormPdf(Abs(z)), MulMicro(p2, t))
    IN  IF z >= 0 THEN 1000000 - tail ELSE tail

\* Clip without the upper limit
ClipBelowOnly(v, lo, hi) == IF v < lo THEN lo ELSE v

\* np.clip(v, lo, hi)
Clip(v, lo, hi) == IF v < lo THEN lo ELSE IF v > hi THEN hi ELSE v

\* rbar or r0_bar of RayleighTest._rayleigh_test_rad: the statistic
RayleighStat(s, m) ==
    LET n == Len(s)
    IN  IF m = None
        THEN LET ss == Sum([i \in 1..n |-> Sin(s[i])])
                 cc == Sum([i \in 1..n |-> Cos(s[i])])
             IN  FDiv(Isqrt(ss * ss + cc * cc), n)
        ELSE FDiv(Sum([i \in 1..n |-> Cos(s[i] - m[1])]), n)

\* the p-value of RayleighTest._rayleigh_test_rad before it is clipped
RayleighRaw(s, m) ==
    LET n == Len(s)
    IN  IF m = None
        THEN LET rbar == RayleighStat(s, m)
                 z == FDiv(n * rbar * rbar, 1000)
                 z2 == Mul(z, z)
                 z3 == Mul(z2, z)
                 z4 == Mul(z3, z)
                 temp == IF n < 50
                         THEN 1000 + FDiv(2 * z - z2, 4 * n)
                                - FDiv(24 * z - 132 * z2 + 76 * z3 - 9 * z4, 288 * n * n)
                         ELSE 1000
             IN  Mul(ExpNeg(z), temp)
        ELSE LET r0_bar == RayleighStat(s, m)
                 z0 == Mul(Isqrt(2 * n * 1000000), r0_bar)
                 z03 == Mul(Mul(z0, z0), z0)
                 z05 == Mul(Mul(z03, z0), z0)
                 z07 == Mul(Mul(z05, z0), z0)
                 pz == NormCdf(z0)
                 fz == NormPdf(z0)
             IN  1000000 - pz
                   + Mul(fz, FDiv(3 * z0 - z03, 16 * n)
                               + FDiv(15 * z0 + 305 * z03 - 125 * z05 + 9 * z07,
                                      4608 * n * n))

\* RayleighTest._rayleigh_test_rad: the result dictionary
RayleighTestRad(s, m) ==
    [statistic |-> RayleighStat(s, m),
     p_value |-> Clip(RayleighRaw(s, m), 0, 1000000),
     mu |-> m]

RayleighRunTest ==
    /\ kind = "rayleigh"
    /\ called' = "run_test"
    /\ exc' = "none"
    /\ LET clean == RemoveNaN(x)
           px == ModSample(clean)
           pmu == IF mu # None THEN Some(NpMod(mu[1])) ELSE mu
           result == RayleighTestRad(px, pmu)
       IN  IF Len(clean) = 0
           THEN /\ x' = clean
                /\ out' = <<Line("Warning: No observations", 0)>>
                /\ ret' = None
                /\ UNCHANGED <<mu, statistic, p_value, completed>>
           ELSE /\ x' = px
                /\ mu' = pmu
                /\ statistic' = Some(result.statistic)
                /\ p_value' = Some(result.p_value)
                /\ ret' = Some(result)
                /\ out' = <<>>
                /\ completed' = TRUE
    /\ UNCHANGED <<kind, y, alpha, nx, ny>>

RayleighPrintResults ==
    /\ kind = "rayleigh"
    /\ called' = "print_results"
    /\ ret' = None
    /\ exc' = "none"
    /\ out' = IF statistic = None \/ p_value = None
              THEN <<Line("Test has not been run yet", 0)>>
              ELSE <<Line("Rayleigh Test of Uniformity", 0),
                     IF mu = None
                     THEN Line("General Unimodal Alternative", 0)
                     ELSE Line("Alternative with Specified Mean Direction", mu[1]),
                     Line("Test Statistic", statistic[1]),
                     Line("P-value", p_value[1])>>
    /\ UNCHANGED <<kind, x, y, alpha, mu, statistic, nx, ny, p_value, completed>>

-----------------------------------------------------------------------------
(* Construction                                                            *)

\* the values a raw sample is drawn from: a missing value, a negative angle
\* within one float spacing of zero, zero, a quarter turn, and an angle
\* beyond a full turn
RawVals == {NaN, -1, 0, 6, 28}

Samples == UNION {[1..n -> RawVals] : n \in 0..MaxLen}

\* the significance levels a test is constructed with, in thousandths
AlphaInputs == {0, 50, 200}

\* the second sample of Watson's test is drawn from fewer values
SamplesY == UNION {[1..n -> {NaN, 0, 6}] : n \in 0..MaxLen}

Fresh ==
    /\ statistic = None
    /\ nx = None
    /\ ny = None
    /\ p_value = None
    /\ called = "init"
    /\ ret = None
    /\ exc = "none"
    /\ out = <<>>
    /\ completed = FALSE

\* KuiperTest.__init__
KuiperInit ==
    /\ kind = "kuiper"
    /\ x \in Samples
    /\ y = <<>>
    /\ alpha \in AlphaInputs
    /\ mu = None
    /\ Fresh

\* WatsonTwoTest.__init__ with two enumerated samples
WatsonInit ==
    /\ kind = "watson"
    /\ x \in Samples
    /\ y \in SamplesY
    /\ alpha \in AlphaInputs
    /\ mu = None
    /\ Fresh

\* WatsonTwoTest.__init__ with two large samples on separate arcs
WatsonBigInit ==
    /\ kind = "watson"
    /\ x = Const(BigLen, 0)
    /\ y = Const(BigLen, 6)
    /\ alpha = 200
    /\ mu = None
    /\ Fresh

\* the mean directions a Rayleigh test is constructed with
MuInputs == {None, Some(0), Some(12), Some(-6)}

\* RayleighTest.__init__, with an enumerated sample or a long constant one
RayleighInit ==
    /\ kind = "rayleigh"
    /\ x \in Samples \cup {Const(LongLen, v) : v \in {0, 6}}
    /\ y = <<>>
    /\ alpha = 0
    /\ mu \in MuInputs
    /\ Fresh

Init == KuiperInit \/ WatsonInit \/ WatsonBigInit \/ RayleighInit

Next ==
    \/ KuiperRunTest
    \/ KuiperPrintResults
    \/ WatsonRunTest
    \/ WatsonPrintResults
    \/ RayleighRunTest
    \/ RayleighPrintResults

Spec == Init /\ [][Next]_vars

-----------------------------------------------------------------------------
(* The reporting of Kuiper's test as a function of the statistic.          *)

\* statistics at, just below and just above every critical value
VGrid == {0, 1000, 1536, 1537, 1538, 1619, 1620, 1621, 1746, 1747, 1748,
          1861, 1862, 1863, 2000, 2001, 2002, 3000}

\* a KuiperTest object whose run_test has stored the statistic V
ReportInit ==
    /\ kind = "kuiper"
    /\ x = <<0>>
    /\ y = <<>>
    /\ alpha \in {0} \cup DOMAIN KuiperCrits
    /\ mu = None
    /\ statistic \in {Some(V) : V \in VGrid}
    /\ nx = None
    /\ ny = None
    /\ p_value = None
    /\ called = "run_test"
    /\ ret = statistic
    /\ exc = "none"
    /\ out = <<>>
    /\ completed = TRUE

ReportNext == KuiperPrintResults

SpecReport == ReportInit /\ [][ReportNext]_vars

-----------------------------------------------------------------------------
(* Properties                                                              *)

\* every element of s is a missing value (s is empty after NaN removal)
AllNaN(s) == \A i \in 1..Len(s) : s[i] = NaN

NoObservations == AllNaN(x) \/ (kind = "watson" /\ AllNaN(y))

\* C1: for each of the three tests, run_test on a sample with no element
\* left after NaN removal returns None, raises nothing, and leaves the
\* statistic (and Rayleigh's p_value) at None.
C1_EmptyReturnsNone ==
    (called = "run_test" /\ NoObservations) =>
        /\ ret = None
        /\ exc = "none"
        /\ statistic = None
        /\ p_value = None

C1_Witness ==
    /\ kind = "rayleigh"
    /\ called = "run_test"
    /\ Len(x) = 0
    /\ ret = None
    /\ Printed("Warning: No observations")

\* C2: KuiperTest.run_test raises ValueError exactly when the sample is not
\* empty after NaN removal and alpha is none of 0, 0.01, 0.025, 0.05, 0.1,
\* 0.15; an empty sample with an invalid alpha returns None without error,
\* and no statistic is stored when the error is raised.
C2_ValueErrorIff ==
    (kind = "kuiper" /\ called = "run_test") =>
        /\ (exc = "ValueError") <=>
               (~AllNaN(x) /\ alpha \notin {0, 10, 25, 50, 100, 150})
        /\ (exc = "ValueError" => statistic = None)
        /\ (AllNaN(x) => ret = None /\ exc = "none")

C2_Witness ==
    /\ kind = "kuiper"
    /\ called = "run_test"
    /\ alpha = 200
    /\ Len(x) > 0
    /\ exc = "ValueError"
    /\ statistic = None

\* the test has taken its sample(s) through NaN removal and modulo 2*pi
Prepared ==
    /\ called = "run_test"
    /\ Len(x) > 0
    /\ kind = "watson" => Len(y) > 0

InRange(s) == \A i \in 1..Len(s) : s[i] # NaN /\ 0 <= s[i] /\ s[i] < TwoPi

\* C3: after the preparation step of run_test on a sample that is not empty,
\* every stored element lies in [0, 2*pi) and none is NaN, and preparing the
\* stored sample again leaves it unchanged.
C3_PreparedInRange ==
    Prepared => /\ InRange(x)
                /\ InRange(y)
                /\ Prepare(x) = x
                /\ Prepare(y) = y

\* C4: the Kuiper statistic V and the Watson statistic U2 of non-empty
\* prepared samples are non-negative.
C4_StatisticNonNegative ==
    (kind \in {"kuiper", "watson"} /\ statistic # None) => statistic[1] >= 0

C4_Witness ==
    /\ kind = "kuiper"
    /\ called = "run_test"
    /\ x = <<TwoPi>>
    /\ statistic # None
    /\ statistic[1] > 0

\* C5: the p-value RayleighTest.run_test stores and returns lies in [0, 1]
\* in both branches (mu is None, mu given, mu = 0 included), whatever the
\* value of the expression before clipping.
C5_PValueClipped ==
    (kind = "rayleigh" /\ p_value # None) =>
        /\ 0 <= p_value[1]
        /\ p_value[1] <= 1000000
        /\ (called = "run_test" => ret[1].p_value = p_value[1])

C5_Witness ==
    /\ kind = "rayleigh"
    /\ called = "run_test"
    /\ mu = Some(0)
    /\ RayleighRaw(x, mu) < 0
    /\ p_value = Some(0)

\* print_results of a Watson test that has run, at a non-zero alpha that is
\* not in the table of critical values
WatsonUntabulated ==
    /\ kind = "watson"
    /\ called = "print_results"
    /\ statistic # None
    /\ alpha # 0
    /\ alpha \notin {1, 10, 50, 100}

\* C6, as claimed: at a non-zero alpha outside the table nothing is raised,
\* the critical value is the sentinel 99 and the verdict is always "Do Not
\* Reject Null Hypothesis" (U2 never exceeds 99).
C6_AlwaysDoNotReject ==
    /\ kind = "watson" => exc = "none"
    /\ WatsonUntabulated =>
          /\ \E i \in 1..Len(out) : out[i] = Line("Critical Value", 99000)
          /\ Printed("Do Not Reject Null Hypothesis")

\* C6, amended: at a non-zero alpha outside the table nothing is raised, the
\* critical value is the sentinel 99, and the verdict is "Do Not Reject Null
\* Hypothesis" exactly when U2 <= 99; two large samples on separate arcs
\* have U2 > 99 and are reported "Reject Null Hypothesis".
C6_SentinelVerdict ==
    /\ kind = "watson" => exc = "none"
    /\ WatsonUntabulated =>
          /\ \E i \in 1..Len(out) : out[i] = Line("Critical Value", 99000)
          /\ Printed("Do Not Reject Null Hypothesis") <=> statistic[1] <= 99000
          /\ Printed("Reject Null Hypothesis") <=> statistic[1] > 99000

C6_Witness ==
    /\ WatsonUntabulated
    /\ statistic[1] > 0
    /\ Printed("Do Not Reject Null Hypothesis")

\* C7, as claimed: when either sample is empty after NaN removal, run_test
\* returns None and the warning names 'x' whenever x is empty and 'y'
\* whenever y is empty, also when both are.
C7_EveryEmptyNamed ==
    (kind = "watson" /\ called = "run_test" /\ (Len(x) = 0 \/ Len(y) = 0)) =>
        /\ ret = None
        /\ Len(x) = 0 => Printed("Warning: 'x': No observations")
        /\ Len(y) = 0 => Printed("Warning: 'y': No observations")

\* C7, amended: when either sample is empty after NaN removal, run_test
\* returns None with exactly one warning: it names 'x' whenever x is empty,
\* and names 'y' only when y is empty and x is not.
C7_FirstEmptyNamed ==
    (kind = "watson" /\ called = "run_test" /\ (Len(x) = 0 \/ Len(y) = 0)) =>
        /\ ret = None
        /\ statistic = None
        /\ Len(x) = 0 => out = <<Line("Warning: 'x': No observations", 0)>>
        /\ Len(x) > 0 => out = <<Line("Warning: 'y': No observations", 0)>>

C7_Witness ==
    /\ kind = "watson"
    /\ called = "run_test"
    /\ Len(x) = 0
    /\ Len(y) = 0
    /\ out = <<Line("Warning: 'x': No observations", 0)>>

\* C8: print_results renders a statistic only if an earlier run_test on the
\* object completed; until then the statistic (and p_value) is None and
\* print_results reports that the test has not been run.
C8_NoPartialResult ==
    /\ statistic # None => completed
    /\ p_value # None => completed
    /\ called = "print_results" =>
          IF completed
          THEN Printed("Test Statistic") /\ ~Printed("Test has not been run yet")
          ELSE out = <<Line("Test has not been run yet", 0)>>

C8_Witness ==
    /\ kind = "kuiper"
    /\ called = "print_results"
    /\ alpha = 200
    /\ x = <<TwoPi>>
    /\ ~completed
    /\ out = <<Line("Test has not been run yet", 0)>>

\* run_test of a Watson test has stored a statistic
WatsonRan == kind = "watson" /\ called = "run_test" /\ statistic # None

\* C9, as claimed: with equal values merged x-first, WatsonTwoTest(y, x)
\* returns the U2 that WatsonTwoTest(x, y) returned, ties included.
C9_SymmetricWithTies ==
    WatsonRan =>
        WatsonU2(Len(x), Len(y), StableLabels(Sort(x), Sort(y)))
            = WatsonU2(Len(y), Len(x), StableLabels(Sort(y), Sort(x)))

\* C9, amended: for non-empty samples x and y that share no value after
\* preparation, WatsonTwoTest(y, x) returns the U2 that WatsonTwoTest(x, y)
\* returned.
C9_SymmetricNoTies ==
    (WatsonRan /\ Range(x) \cap Range(y) = {}) =>
        \A L \in Merges(Sort(y), Sort(x)) :
            statistic[1] = WatsonU2(Len(y), Len(x), L)

C9_Witness ==
    /\ WatsonRan
    /\ Range(x) \cap Range(y) = {}
    /\ Len(x) # Len(y)
    /\ statistic[1] > 0

\* the upper end, in thousandths, of the p-value range print_results
\* reports at alpha = 0
RangeUpper(text) ==
    CASE text = "P-value > 0.15" -> 1000
      [] text = "0.10 < P-value < 0.15" -> 150
      [] text = "0.05 < P-value < 0.10" -> 100
      [] text = "0.025 < P-value < 0.05" -> 50
      [] text = "0.01 < P-value < 0.025" -> 25
      [] text = "P-value < 0.01" -> 10

\* the range reported at alpha = 0 for the stored statistic lies below a
RangeBelow(a) == RangeUpper(KuiperReport(statistic[1], 0)[3].text) <= a

\* print_results of a Kuiper test that has run, at a tabulated level
KuiperLevelReport ==
    /\ kind = "kuiper"
    /\ called = "print_results"
    /\ statistic # None
    /\ alpha \in {150, 100, 50, 25, 10}

\* C10, as claimed: at a tabulated level a, print_results reports "Reject
\* Null Hypothesis" if and only if the range it reports at alpha = 0 lies
\* entirely below a, also when V equals a critical value.
C10_ModesAgree ==
    KuiperLevelReport =>
        (Printed("Reject Null Hypothesis") <=> RangeBelow(alpha))

\* C10, amended: the two reports agree for every V other than the critical
\* value c(a); at V = c(a) the level-a report is "Do Not Reject Null
\* Hypothesis" although the range reported at alpha = 0 lies below a.
C10_ModesAgreeOffCritical ==
    KuiperLevelReport =>
        IF statistic[1] = KuiperCrits[alpha]
        THEN Printed("Do Not Reject Null Hypothesis") /\ RangeBelow(alpha)
        ELSE Printed("Reject Null Hypothesis") <=> RangeBelow(alpha)

C10_Witness ==
    /\ KuiperLevelReport
    /\ statistic[1] > KuiperCrits[alpha]
    /\ Printed("Reject Null Hypothesis")
    /\ RangeBelow(alpha)

====
